---------------------------- MODULE Spec2Model ----------------------------
(***************************************************************************)
(* Model of the bulletin-board viewer (src/src/App.tsx): the touch gesture *)
(* engine of the image modal (zoom scale, pan offset, double tap) and the  *)
(* image lifecycle pipeline (upload, delete, initial fetch) against the    *)
(* remote object store and the remote metadata table.                      *)
(*                                                                         *)
(* React state is applied when a handler returns: every handler runs to    *)
(* completion inside one event dispatch and the component re-renders       *)
(* before the next event, so a handler reads the state its predecessor     *)
(* wrote.  JavaScript numbers are modelled exactly: integers for pointer   *)
(* coordinates and times, extended rationals <<n, d>> for the zoom scale   *)
(* (d = 0 encodes the IEEE values: <<1, 0>> is Infinity, <<0, 0>> is NaN). *)
(* A remote call is one step that succeeds or fails as a whole.  An async  *)
(* handler is one action per stretch between two awaits.                   *)
(***************************************************************************)
EXTENDS Integers, Sequences, FiniteSets, TLC

VARIABLES
    \* ---- zoom state of the modal (App.tsx 59-67) ----
    scale,              \* useState(1)
    position,           \* useState({x: 0, y: 0})
    lastTapRef,         \* useRef(0)
    pinchStartDistRef,  \* useRef(0)
    pinchStartScaleRef, \* useRef(1)
    panStartRef,        \* useRef({x: 0, y: 0})
    posStartRef,        \* useRef({x: 0, y: 0})
    isPanningRef,       \* useRef(false)
    modalImage,         \* useState(null): url of the image shown in the modal
    clock,              \* Date.now() of the environment, in ms
    nEvents,            \* number of gesture events dispatched so far
    \* ---- image collections and transients (App.tsx 50-56) ----
    categories,         \* useState(CATEGORIES): category id -> its image sequence
    activeCategory,     \* useState(null)
    isLoading,          \* useState(true)
    isUploading,        \* useState(false)
    error,              \* useState(null)
    errorAge,           \* ms since the message on screen was set by setError
    timerAge,           \* ms since the pending timer of the auto-dismiss effect was started
    \* ---- the remote stores (supabase) ----
    blobs,              \* storage bucket 'tablero-images': the paths that hold a blob
    rows,               \* table 'images': the metadata rows
    nextUuid,           \* the next value of crypto.randomUUID()
    nextId,             \* the next row id (and created_at) the table assigns
    \* ---- asynchronous operations in flight ----
    batches,            \* handleFileChange invocations: where each one is suspended
    nImages,            \* number of image files selected so far
    deletes,            \* handleDeleteImage invocations: where each one is suspended
    fetches,            \* load(): state of fetchImagesByCategory per category
    loadSettled,        \* load(): Promise.all has resolved or rejected
    cancelled,          \* load effect: let cancelled (set by the effect's cleanup)
    \* ---- compressImage (App.tsx 580-613) ----
    img,                \* new Image(): the decoded width and height
    canvas,             \* document.createElement('canvas'): its width and height
    compressed,         \* the promise compressImage returns: pending, resolved or rejected
    \* ---- history ----
    calls,              \* the uploads and inserts that succeeded
    ev                  \* the gesture handler that ran last and its input

zoomVars == <<scale, position, lastTapRef, pinchStartDistRef, pinchStartScaleRef,
              panStartRef, posStartRef, isPanningRef, modalImage, clock, nEvents>>

pipeVars == <<categories, activeCategory, isLoading, isUploading, error, errorAge, timerAge,
              blobs, rows,
              nextUuid, nextId, batches, nImages, deletes, fetches,
              loadSettled, cancelled, calls>>

compressVars == <<img, canvas, compressed>>

vars == <<zoomVars, pipeVars, compressVars, ev>>

-----------------------------------------------------------------------------
(* Bounds of the model *)

\* gesture events dispatched in one run
MaxEvents == 6
\* handleFileChange invocations in flight at one time
MaxBatches == 2
\* files in one selection
MaxFiles == 2
\* handleDeleteImage invocations in flight at one time
MaxDeletes == 1
\* image files selected in one run, over all selections
MaxImages == 2
\* the handleDeleteImage invocations that may be in flight at once where removes
\* run concurrently
MaxConcurrentDeletes == 2

(* Program constants *)

\* const DOUBLE_TAP_DELAY = 300
DOUBLE_TAP_DELAY == 300
\* Math.min(5, ...): the upper clamp of the scale
MAX_SCALE == 5
\* Math.max(1, ...): the lower clamp of the scale
MIN_SCALE == 1
\* setTimeout(() => setError(null), 4000)
ERROR_DELAY == 4000
\* const MAX_SIZE = 1200
MAX_SIZE == 1200

-----------------------------------------------------------------------------
(* JavaScript numbers: extended rationals *)

Abs(i) == IF i < 0 THEN -i ELSE i

RECURSIVE GCD(_, _)
GCD(a, b) == IF b = 0 THEN a ELSE GCD(b, a % b)

\* the rational n/d in lowest terms (n >= 0, d > 0)
Norm(n, d) == LET g == GCD(n, d) IN <<n \div g, d \div g>>

NaN == <<0, 0>>
Infinity == <<1, 0>>
Num(i) == <<i, 1>>

IsNaN(r) == r = NaN
IsFinite(r) == r[2] # 0

\* a / b on non-negative integers, as IEEE division: x/0 is Infinity, 0/0 is NaN
NumDiv(a, b) ==
    IF b = 0 THEN (IF a = 0 THEN NaN ELSE Infinity) ELSE Norm(a, b)

\* r * s on non-negative extended rationals: NaN is absorbing, 0 * Infinity is NaN
NumMul(r, s) ==
    IF IsNaN(r) \/ IsNaN(s) THEN NaN
    ELSE IF ~IsFinite(r) \/ ~IsFinite(s)
         THEN (IF r[1] = 0 \/ s[1] = 0 THEN NaN ELSE Infinity)
         ELSE Norm(r[1] * s[1], r[2] * s[2])

\* r < s, r <= s, r > s: every comparison with NaN is false
NumLt(r, s) ==
    /\ ~IsNaN(r) /\ ~IsNaN(s)
    /\ IF ~IsFinite(r) THEN FALSE
       ELSE IF ~IsFinite(s) THEN TRUE
       ELSE r[1] * s[2] < s[1] * r[2]
NumLe(r, s) == ~IsNaN(r) /\ ~IsNaN(s) /\ (r = s \/ NumLt(r, s))
NumGt(r, s) == NumLt(s, r)

\* Math.max / Math.min: NaN if either argument is NaN
MathMax(r, s) == IF IsNaN(r) \/ IsNaN(s) THEN NaN ELSE IF NumLt(r, s) THEN s ELSE r
MathMin(r, s) == IF IsNaN(r) \/ IsNaN(s) THEN NaN ELSE IF NumLt(s, r) THEN s ELSE r

\* Math.hypot(dx, dy) on the inputs of the model, whose distances are whole numbers
RECURSIVE SqrtBetween(_, _, _)
SqrtBetween(n, lo, hi) ==
    IF lo >= hi THEN lo
    ELSE LET mid == (lo + hi + 1) \div 2
         IN  IF mid * mid <= n THEN SqrtBetween(n, mid, hi) ELSE SqrtBetween(n, lo, mid - 1)
Hypot(dx, dy) == SqrtBetween(dx * dx + dy * dy, 0, Abs(dx) + Abs(dy))

-----------------------------------------------------------------------------
(* Inputs of the gesture engine *)

\* contact points (clientX, clientY) a touch may report
Points == {<<0, 0>>, <<100, 0>>, <<200, 0>>, <<600, 0>>, <<0, 100>>}

\* e.touches of a one-finger and of a two-finger event
OneTouch == {<<p>> : p \in Points}
TwoTouches == {<<p, q>> : p \in {<<0, 0>>}, q \in Points}
\* e.touches of an event with three fingers on the screen
ThreeTouches == {<<<<0, 0>>, <<100, 0>>, <<0, 100>>>>}
Touches == OneTouch \cup TwoTouches \cup ThreeTouches

\* time between two taps, in ms
TapDeltas == {250, 300, 350}

\* the first event of a run happens at this Date.now()
StartClock == 1000

NoImage == <<>>

-----------------------------------------------------------------------------
(* Data of the image lifecycle pipeline *)

\* the ids of const CATEGORIES
CATEGORIES == <<"campo", "anuncios">>
CategoryIds == {CATEGORIES[k] : k \in 1..Len(CATEGORIES)}

NoCategory == "null"
NoError == "null"
NoPath == <<>>

\* err.message of the errors the operations throw
DecodeError == "Failed to load image"
StorageError == "StorageError"
PostgrestError == "PostgrestError"

\* `${category}/${crypto.randomUUID()}.webp`
Filename(category, uuid) == <<category, uuid>>

\* supabase.storage.from('tablero-images').getPublicUrl(filename).data.publicUrl
PublicUrl(filename) == <<"public">> \o filename

\* the row the table returns for insert({category, storage_path, url}).select().single()
InsertedRow(id, category, filename) ==
    [id |-> id, category |-> category, storage_path |-> filename,
     url |-> PublicUrl(filename), created_at |-> id]

\* what the remote stores hold when the session starts: one image uploaded earlier
SeedRows == {InsertedRow(0, "campo", Filename("campo", 0))}

\* a selected file: its declared media type and whether the browser can decode it
ImageFile == [type |-> "image/png", decodable |-> TRUE]
BrokenFile == [type |-> "image/png", decodable |-> FALSE]
TextFile == [type |-> "text/plain", decodable |-> FALSE]
Files == {ImageFile, BrokenFile, TextFile}

\* file.type.startsWith('image/')
IsImageType(file) == file.type = "image/png"

\* e.target.files of one selection
Selections == UNION {[1..n -> Files] : n \in 1..MaxFiles}

\* the files the loop `for (const file of Array.from(files))` has still to visit
\* when it reaches its next await: `if (!file.type.startsWith('image/')) continue`
\* drops the files in front that are not images
RECURSIVE SkipNonImages(_)
SkipNonImages(files) ==
    IF files = <<>> THEN <<>>
    ELSE IF IsImageType(Head(files)) THEN files
    ELSE SkipNonImages(Tail(files))

\* .order('created_at', { ascending: false }) of a set of rows
RECURSIVE NewestFirst(_)
NewestFirst(rs) ==
    IF rs = {} THEN <<>>
    ELSE LET newest == CHOOSE r \in rs : \A q \in rs : q.created_at <= r.created_at
         IN  <<newest>> \o NewestFirst(rs \ {newest})

\* fetchImagesByCategory(category) against the table
QueryByCategory(table, category) == NewestFirst({r \in table : r.category = category})

\* cat.images.filter((img) => img.id !== record.id)
RECURSIVE FilterOut(_, _)
FilterOut(images, id) ==
    IF images = <<>> THEN <<>>
    ELSE IF Head(images).id = id THEN FilterOut(Tail(images), id)
    ELSE <<Head(images)>> \o FilterOut(Tail(images), id)

\* a storage upload ("put") or a row insert ("insert") for a storage path that succeeded
Call(op, filename) == [op |-> op, key |-> filename]

Range(seq) == {seq[k] : k \in 1..Len(seq)}

\* the number of image files in a file list
RECURSIVE CountImages(_)
CountImages(files) ==
    IF files = <<>> THEN 0
    ELSE (IF IsImageType(Head(files)) THEN 1 ELSE 0) + CountImages(Tail(files))

\* a handleFileChange invocation that is not suspended at an await
IdleBatch ==
    [pc |-> "idle", category |-> NoCategory, files |-> <<>>, filename |-> NoPath,
     added |-> <<>>]
\* a handleDeleteImage invocation slot that is free
IdleDelete == [pc |-> "idle", categoryId |-> NoCategory, record |-> <<>>]

-----------------------------------------------------------------------------
(* Data of compressImage *)

\* the widths and heights a decoded image may have, in pixels
Dimensions == {1, 3, 11, 600, 1199, 1200, 1201, 1760, 2000, 2400, 4000, 5000}

\* a size <<width, height>> that is not set
NoSize == <<>>

\* the file is not an image the browser can decode: img.onerror fires
Undecodable == <<0, 0>>

\* the states of the promise; a rejected promise holds the message of its Error
Pending == "pending"
Resolved == "resolved"
CompressionFailed == "Compression failed"

\* n is a power of two
RECURSIVE IsPowerOfTwo(_)
IsPowerOfTwo(n) == n = 1 \/ (n % 2 = 0 /\ IsPowerOfTwo(n \div 2))

\* the double n / d is the exact quotient: its denominator is a power of two
IsExactQuotient(n, d) == IsPowerOfTwo(Norm(n, d)[2])

\* Math.round(k * (n / d)) in double arithmetic, for pixel counts k, n, d >= 1:
\* the values it may have.  The product is off the exact k*n/d by less than the
\* distance to any half that k*n/d is not on, so it rounds as k*n/d does, to
\* floor(k*n/d + 1/2).  Where k*n/d is exactly a half above an integer and the
\* quotient n / d is not exact, the product may fall just below the half and
\* round down, or on it and round up.
MathRoundOfScaled(k, n, d) ==
    LET up == (2 * k * n + d) \div (2 * d)
        tie == (2 * k * n) % d = 0 /\ ((2 * k * n) \div d) % 2 = 1
    IN  IF tie /\ ~IsExactQuotient(n, d) THEN {up - 1, up} ELSE {up}

\* mutant of NeedsResize: only the width is compared with MAX_SIZE
NeedsResize_WidthOnly(width, height) == width > MAX_SIZE

\* if (width > MAX_SIZE || height > MAX_SIZE)
NeedsResize(width, height) == width > MAX_SIZE \/ height > MAX_SIZE

\* the sizes <<canvas.width, canvas.height>> img.onload may set for an image of
\* the decoded size width x height
CanvasSizes(width, height) ==
    IF NeedsResize(width, height)
    THEN IF width > height
         THEN {<<MAX_SIZE, h>> : h \in MathRoundOfScaled(height, MAX_SIZE, width)}
         ELSE {<<w, MAX_SIZE>> : w \in MathRoundOfScaled(width, MAX_SIZE, height)}
    ELSE {<<width, height>>}

-----------------------------------------------------------------------------
(* Initial state: the values of useState / useRef *)

InitGesture ==
    /\ scale = Num(1)
    /\ position = <<0, 0>>
    /\ lastTapRef = 0
    /\ pinchStartDistRef = 0
    /\ pinchStartScaleRef = Num(1)
    /\ panStartRef = <<0, 0>>
    /\ posStartRef = <<0, 0>>
    /\ isPanningRef = FALSE
    /\ modalImage = NoImage
    /\ clock = StartClock
    /\ nEvents = 0

InitPipeline ==
    /\ categories = [c \in CategoryIds |-> <<>>]
    /\ activeCategory = NoCategory
    /\ isLoading = TRUE
    /\ isUploading = FALSE
    /\ error = NoError
    /\ errorAge = 0
    /\ timerAge = 0
    /\ blobs = {r.storage_path : r \in SeedRows}
    /\ rows = SeedRows
    /\ nextUuid = 1
    /\ nextId = 1
    /\ batches = [b \in 1..MaxBatches |-> IdleBatch]
    /\ nImages = 0
    /\ deletes = [d \in 1..MaxDeletes |-> IdleDelete]
    /\ fetches = [c \in CategoryIds |-> [pc |-> "pending", data |-> <<>>]]
    /\ loadSettled = FALSE
    /\ cancelled = FALSE
    /\ calls = {}

\* no image is being compressed
InitCompress ==
    /\ img = NoSize
    /\ canvas = NoSize
    /\ compressed = Pending

Init ==
    /\ InitGesture
    /\ InitPipeline
    /\ InitCompress
    /\ ev = [kind |-> "init", n |-> 0, ok |-> TRUE]

-----------------------------------------------------------------------------
(* Gesture handlers *)

\* every handler of the modal is one event dispatch
Dispatch(kind, n) ==
    /\ nEvents < MaxEvents
    /\ nEvents' = nEvents + 1
    /\ ev' = [kind |-> kind, n |-> n, ok |-> TRUE]
    /\ UNCHANGED <<pipeVars, compressVars>>

\* onClick={() => setModalImage(img.url)}
openModal ==
    /\ ~isLoading /\ ~cancelled
    /\ modalImage = NoImage
    /\ activeCategory # NoCategory
    /\ \E k \in 1..Len(categories[activeCategory]) :
          modalImage' = categories[activeCategory][k].url
    /\ ev' = [kind |-> "open", n |-> 0, ok |-> TRUE]
    /\ UNCHANGED <<pipeVars, compressVars>>
    /\ UNCHANGED <<nEvents, scale, position, lastTapRef, pinchStartDistRef, pinchStartScaleRef,
                   panStartRef, posStartRef, isPanningRef, clock>>

\* resetZoom: setScale(1); setPosition({x: 0, y: 0})
resetZoom ==
    /\ scale' = Num(1)
    /\ position' = <<0, 0>>

\* mutant of closeModal: the modal is closed without resetZoom()
closeModal_KeepsZoom ==
    /\ modalImage # NoImage
    /\ ev' = [kind |-> "close", n |-> 0, ok |-> TRUE]
    /\ UNCHANGED <<pipeVars, compressVars>>
    /\ UNCHANGED nEvents
    /\ modalImage' = NoImage
    /\ UNCHANGED <<scale, position>>
    /\ UNCHANGED <<lastTapRef, pinchStartDistRef, pinchStartScaleRef,
                   panStartRef, posStartRef, isPanningRef, clock>>

\* closeModal: setModalImage(null); resetZoom()
closeModal ==
    /\ modalImage # NoImage
    /\ ev' = [kind |-> "close", n |-> 0, ok |-> TRUE]
    /\ UNCHANGED <<pipeVars, compressVars>>
    /\ UNCHANGED nEvents
    /\ modalImage' = NoImage
    /\ resetZoom
    /\ UNCHANGED <<lastTapRef, pinchStartDistRef, pinchStartScaleRef,
                   panStartRef, posStartRef, isPanningRef, clock>>

\* mutant of IsDoubleTap: the window is closed at 300 ms instead of open
IsDoubleTap_Inclusive(now, lastTap) == now - lastTap <= DOUBLE_TAP_DELAY

\* if (now - lastTapRef.current < DOUBLE_TAP_DELAY)
IsDoubleTap(now, lastTap) == now - lastTap < DOUBLE_TAP_DELAY

\* mutant of handleDoubleTap: a tap that toggled clears the timestamp, so that the
\* next tap starts a new double tap
handleDoubleTap_ForgetsToggle(now) ==
    /\ modalImage # NoImage
    /\ Dispatch("tap", 0)
    /\ clock' = now
    /\ IF IsDoubleTap(now, lastTapRef)
       THEN /\ IF NumGt(scale, Num(1))
               THEN resetZoom
               ELSE /\ scale' = <<5, 2>>
                    /\ position' = <<0, 0>>
            /\ lastTapRef' = 0
       ELSE /\ UNCHANGED <<scale, position>>
            /\ lastTapRef' = now
    /\ UNCHANGED <<pinchStartDistRef, pinchStartScaleRef, panStartRef, posStartRef,
                   isPanningRef, modalImage>>

\* handleDoubleTap, called on a click of the image when Date.now() is `now`
handleDoubleTap(now) ==
    /\ modalImage # NoImage
    /\ Dispatch("tap", 0)
    /\ clock' = now
    /\ IF IsDoubleTap(now, lastTapRef)
       THEN IF NumGt(scale, Num(1))
            THEN resetZoom
            ELSE /\ scale' = <<5, 2>>
                 /\ position' = <<0, 0>>
       ELSE UNCHANGED <<scale, position>>
    /\ lastTapRef' = now
    /\ UNCHANGED <<pinchStartDistRef, pinchStartScaleRef, panStartRef, posStartRef,
                   isPanningRef, modalImage>>

\* mutant of handleTouchStart: one finger starts a pan at any scale
handleTouchStart_AnyScale(touches) ==
    /\ modalImage # NoImage
    /\ Dispatch("start", Len(touches))
    /\ IF Len(touches) = 2
       THEN /\ pinchStartDistRef' = Hypot(touches[1][1] - touches[2][1],
                                          touches[1][2] - touches[2][2])
            /\ pinchStartScaleRef' = scale
            /\ UNCHANGED <<isPanningRef, panStartRef, posStartRef>>
       ELSE IF Len(touches) = 1
       THEN /\ isPanningRef' = TRUE
            /\ panStartRef' = touches[1]
            /\ posStartRef' = position
            /\ UNCHANGED <<pinchStartDistRef, pinchStartScaleRef>>
       ELSE UNCHANGED <<pinchStartDistRef, pinchStartScaleRef, isPanningRef,
                        panStartRef, posStartRef>>
    /\ UNCHANGED <<scale, position, lastTapRef, modalImage, clock>>

\* handleTouchStart(e)
handleTouchStart(touches) ==
    /\ modalImage # NoImage
    /\ Dispatch("start", Len(touches))
    /\ IF Len(touches) = 2
       THEN /\ pinchStartDistRef' = Hypot(touches[1][1] - touches[2][1],
                                          touches[1][2] - touches[2][2])
            /\ pinchStartScaleRef' = scale
            /\ UNCHANGED <<isPanningRef, panStartRef, posStartRef>>
       ELSE IF Len(touches) = 1 /\ NumGt(scale, Num(1))
       THEN /\ isPanningRef' = TRUE
            /\ panStartRef' = touches[1]
            /\ posStartRef' = position
            /\ UNCHANGED <<pinchStartDistRef, pinchStartScaleRef>>
       ELSE UNCHANGED <<pinchStartDistRef, pinchStartScaleRef, isPanningRef,
                        panStartRef, posStartRef>>
    /\ UNCHANGED <<scale, position, lastTapRef, modalImage, clock>>

\* mutant of PinchScale: the upper clamp Math.min(5, ...) is missing
PinchScale_NoUpperClamp(startScale, dist, startDist) ==
    MathMax(Num(MIN_SCALE), NumMul(startScale, NumDiv(dist, startDist)))

\* the scale a pinch move publishes
PinchScale(startScale, dist, startDist) ==
    MathMin(Num(MAX_SCALE), MathMax(Num(MIN_SCALE), NumMul(startScale, NumDiv(dist, startDist))))

\* mutant of PinchPosition: the move to scale 1 keeps the pan offset
PinchPosition_KeepsPan(newScale, pos) == pos

\* the pan offset a pinch move publishes with its scale
PinchPosition(newScale, pos) == IF NumLe(newScale, Num(1)) THEN <<0, 0>> ELSE pos

\* mutant of handleTouchMove: the pan adds the finger's way to the current offset,
\* not to the offset recorded at the start of the pan
handleTouchMove_Accumulates(touches) ==
    /\ modalImage # NoImage
    /\ Dispatch("move", Len(touches))
    /\ IF Len(touches) = 2
       THEN LET dist == Hypot(touches[1][1] - touches[2][1],
                              touches[1][2] - touches[2][2])
                newScale == PinchScale(pinchStartScaleRef, dist, pinchStartDistRef)
            IN  /\ scale' = newScale
                /\ position' = PinchPosition(newScale, position)
       ELSE IF Len(touches) = 1 /\ isPanningRef /\ NumGt(scale, Num(1))
       THEN /\ position' = <<position[1] + (touches[1][1] - panStartRef[1]),
                             position[2] + (touches[1][2] - panStartRef[2])>>
            /\ UNCHANGED scale
       ELSE UNCHANGED <<scale, position>>
    /\ UNCHANGED <<lastTapRef, pinchStartDistRef, pinchStartScaleRef, panStartRef,
                   posStartRef, isPanningRef, modalImage, clock>>

\* mutant of handleTouchMove: one finger pans whenever the image is zoomed in,
\* whether or not a pan was started
handleTouchMove_IgnoresPanning(touches) ==
    /\ modalImage # NoImage
    /\ Dispatch("move", Len(touches))
    /\ IF Len(touches) = 2
       THEN LET dist == Hypot(touches[1][1] - touches[2][1],
                              touches[1][2] - touches[2][2])
                newScale == PinchScale(pinchStartScaleRef, dist, pinchStartDistRef)
            IN  /\ scale' = newScale
                /\ position' = PinchPosition(newScale, position)
       ELSE IF Len(touches) = 1 /\ NumGt(scale, Num(1))
       THEN /\ position' = <<posStartRef[1] + (touches[1][1] - panStartRef[1]),
                             posStartRef[2] + (touches[1][2] - panStartRef[2])>>
            /\ UNCHANGED scale
       ELSE UNCHANGED <<scale, position>>
    /\ UNCHANGED <<lastTapRef, pinchStartDistRef, pinchStartScaleRef, panStartRef,
                   posStartRef, isPanningRef, modalImage, clock>>

\* handleTouchMove(e)
handleTouchMove(touches) ==
    /\ modalImage # NoImage
    /\ Dispatch("move", Len(touches))
    /\ IF Len(touches) = 2
       THEN LET dist == Hypot(touches[1][1] - touches[2][1],
                              touches[1][2] - touches[2][2])
                newScale == PinchScale(pinchStartScaleRef, dist, pinchStartDistRef)
            IN  /\ scale' = newScale
                /\ position' = PinchPosition(newScale, position)
       ELSE IF Len(touches) = 1 /\ isPanningRef /\ NumGt(scale, Num(1))
       THEN /\ position' = <<posStartRef[1] + (touches[1][1] - panStartRef[1]),
                             posStartRef[2] + (touches[1][2] - panStartRef[2])>>
            /\ UNCHANGED scale
       ELSE UNCHANGED <<scale, position>>
    /\ UNCHANGED <<lastTapRef, pinchStartDistRef, pinchStartScaleRef, panStartRef,
                   posStartRef, isPanningRef, modalImage, clock>>

\* mutant of handleTouchEnd: the panning flag is not cleared
handleTouchEnd_KeepsPanning ==
    /\ modalImage # NoImage
    /\ Dispatch("end", 0)
    /\ UNCHANGED isPanningRef
    /\ IF NumLe(scale, Num(1)) THEN resetZoom ELSE UNCHANGED <<scale, position>>
    /\ UNCHANGED <<lastTapRef, pinchStartDistRef, pinchStartScaleRef, panStartRef,
                   posStartRef, modalImage, clock>>

\* handleTouchEnd()
handleTouchEnd ==
    /\ modalImage # NoImage
    /\ Dispatch("end", 0)
    /\ isPanningRef' = FALSE
    /\ IF NumLe(scale, Num(1)) THEN resetZoom ELSE UNCHANGED <<scale, position>>
    /\ UNCHANGED <<lastTapRef, pinchStartDistRef, pinchStartScaleRef, panStartRef,
                   posStartRef, modalImage, clock>>

NextGesture ==
    \/ openModal
    \/ closeModal
    \/ \E dt \in TapDeltas : handleDoubleTap(clock + dt)
    \/ \E t \in Touches : handleTouchStart(t)
    \/ \E t \in Touches : handleTouchMove(t)
    \/ handleTouchEnd

-----------------------------------------------------------------------------
(* The error toast: setError and the auto-dismiss effect (App.tsx 111-116) *)

\* the time that passes between two steps while a message is on screen, in ms
TimeSteps == {2000}

\* setError(message) with the auto-dismiss effect that follows the render: a
\* message that differs from the one on screen changes the state, so the effect's
\* cleanup clears the pending timer and the effect starts a new one; an equal
\* message leaves the state as it is, the effect does not run and the pending
\* timer stays
SetError(message) ==
    /\ error' = message
    /\ errorAge' = 0
    /\ timerAge' = IF error = message THEN timerAge ELSE 0

\* setError(null): the effect's cleanup clears the pending timer
ClearError ==
    /\ error' = NoError
    /\ errorAge' = 0
    /\ timerAge' = 0

\* time passes while a message is on screen and its timer is not yet due
Tick(dt) ==
    /\ error # NoError
    /\ timerAge < ERROR_DELAY
    /\ errorAge' = errorAge + dt
    /\ timerAge' = timerAge + dt
    /\ UNCHANGED <<categories, activeCategory, isLoading, isUploading, error, blobs, rows,
                   nextUuid, nextId, batches, nImages, deletes, fetches, loadSettled,
                   cancelled, calls>>
    /\ UNCHANGED <<zoomVars, compressVars, ev>>

-----------------------------------------------------------------------------
(* Initial load: the useEffect of App.tsx 89-109 *)

\* the fetches once Promise.all has settled: load() reads no result after that
SettledFetches == [c \in CategoryIds |-> [pc |-> "settled", data |-> <<>>]]

\* mutant of fetchDone: load() does not look at `cancelled`
fetchDone_IgnoresCancelled(category, ok) ==
    /\ ~loadSettled
    /\ fetches[category].pc = "pending"
    /\ LET result == IF ok THEN QueryByCategory(rows, category) ELSE <<>>
           after == [fetches EXCEPT ![category] =
                        [pc |-> IF ok THEN "ok" ELSE "failed", data |-> result]]
           resolved == \A c \in CategoryIds : after[c].pc = "ok"
       IN  /\ loadSettled' = (resolved \/ ~ok)
           /\ fetches' = IF loadSettled' THEN SettledFetches ELSE after
           /\ IF ~loadSettled'
              THEN UNCHANGED <<categories, error, errorAge, timerAge, isLoading>>
              ELSE /\ isLoading' = FALSE
                   /\ IF resolved
                      THEN /\ categories' = [c \in CategoryIds |-> after[c].data]
                           /\ UNCHANGED <<error, errorAge, timerAge>>
                      ELSE /\ SetError(PostgrestError)
                           /\ UNCHANGED categories
    /\ UNCHANGED <<activeCategory, isUploading, blobs, rows, nextUuid, nextId, batches,
                   nImages, deletes, cancelled, calls>>
    /\ UNCHANGED <<zoomVars, compressVars, ev>>

\* mutant of fetchDone: load() keeps the results of the fetches that succeeded
\* when another fetch fails
fetchDone_PartialHydrate(category, ok) ==
    /\ ~loadSettled
    /\ fetches[category].pc = "pending"
    /\ LET result == IF ok THEN QueryByCategory(rows, category) ELSE <<>>
           after == [fetches EXCEPT ![category] =
                        [pc |-> IF ok THEN "ok" ELSE "failed", data |-> result]]
           resolved == \A c \in CategoryIds : after[c].pc = "ok"
       IN  /\ loadSettled' = (resolved \/ ~ok)
           /\ fetches' = IF loadSettled' THEN SettledFetches ELSE after
           /\ IF cancelled \/ ~loadSettled'
              THEN UNCHANGED <<categories, error, errorAge, timerAge, isLoading>>
              ELSE /\ isLoading' = FALSE
                   /\ categories' = [c \in CategoryIds |-> after[c].data]
                   /\ IF resolved
                      THEN UNCHANGED <<error, errorAge, timerAge>>
                      ELSE SetError(PostgrestError)
    /\ UNCHANGED <<activeCategory, isUploading, blobs, rows, nextUuid, nextId, batches,
                   nImages, deletes, cancelled, calls>>
    /\ UNCHANGED <<zoomVars, compressVars, ev>>

\* fetchImagesByCategory(category) completes.  Promise.all resolves with the
\* last success and rejects with the first failure; load() then continues.
fetchDone(category, ok) ==
    /\ ~loadSettled
    /\ fetches[category].pc = "pending"
    /\ LET result == IF ok THEN QueryByCategory(rows, category) ELSE <<>>
           after == [fetches EXCEPT ![category] =
                        [pc |-> IF ok THEN "ok" ELSE "failed", data |-> result]]
           resolved == \A c \in CategoryIds : after[c].pc = "ok"
       IN  /\ loadSettled' = (resolved \/ ~ok)
           /\ fetches' = IF loadSettled' THEN SettledFetches ELSE after
           /\ IF cancelled \/ ~loadSettled'
              THEN UNCHANGED <<categories, error, errorAge, timerAge, isLoading>>
              ELSE /\ isLoading' = FALSE
                   /\ IF resolved
                      THEN /\ categories' = [c \in CategoryIds |-> after[c].data]
                           /\ UNCHANGED <<error, errorAge, timerAge>>
                      ELSE /\ SetError(PostgrestError)
                           /\ UNCHANGED categories
    /\ UNCHANGED <<activeCategory, isUploading, blobs, rows, nextUuid, nextId, batches,
                   nImages, deletes, cancelled, calls>>
    /\ UNCHANGED <<zoomVars, compressVars, ev>>

\* the cleanup of the load effect: the view is torn down before the fetch resolved
unmount ==
    /\ ~cancelled
    /\ isLoading
    /\ cancelled' = TRUE
    /\ UNCHANGED <<categories, activeCategory, isLoading, isUploading, error, errorAge,
                   timerAge, blobs, rows, nextUuid, nextId, batches, nImages, deletes,
                   fetches, loadSettled, calls>>
    /\ UNCHANGED <<zoomVars, compressVars, ev>>

\* the view renders its screens once loading is over and until it is torn down
Rendered == ~isLoading /\ ~cancelled

-----------------------------------------------------------------------------
(* Navigation *)

\* handleCategoryClick(id): the callback of its setTimeout
handleCategoryClick(id) ==
    /\ Rendered
    /\ activeCategory = NoCategory
    /\ activeCategory' = id
    /\ UNCHANGED <<categories, isLoading, isUploading, error, errorAge, timerAge, blobs,
                   rows, nextUuid, nextId, batches, nImages, deletes, fetches, loadSettled,
                   cancelled, calls>>
    /\ UNCHANGED <<zoomVars, compressVars, ev>>

\* handleBack: the callback of its setTimeout
handleBack ==
    /\ Rendered
    /\ activeCategory # NoCategory
    /\ activeCategory' = NoCategory
    /\ UNCHANGED <<categories, isLoading, isUploading, error, errorAge, timerAge, blobs,
                   rows, nextUuid, nextId, batches, nImages, deletes, fetches, loadSettled,
                   cancelled, calls>>
    /\ UNCHANGED <<zoomVars, compressVars, ev>>

\* mutant of errorTimeout: the timer is set to 2000 ms
errorTimeout_Early ==
    /\ ~cancelled
    /\ error # NoError
    /\ timerAge >= 2000
    /\ ClearError
    /\ UNCHANGED <<categories, activeCategory, isLoading, isUploading, blobs, rows,
                   nextUuid, nextId, batches, nImages, deletes, fetches, loadSettled,
                   cancelled, calls>>
    /\ UNCHANGED <<zoomVars, compressVars, ev>>

\* the auto-dismiss effect: setTimeout(() => setError(null), 4000) fires
errorTimeout ==
    /\ ~cancelled
    /\ error # NoError
    /\ timerAge >= ERROR_DELAY
    /\ ClearError
    /\ UNCHANGED <<categories, activeCategory, isLoading, isUploading, blobs, rows,
                   nextUuid, nextId, batches, nImages, deletes, fetches, loadSettled,
                   cancelled, calls>>
    /\ UNCHANGED <<zoomVars, compressVars, ev>>

\* onClick={() => setError(null)} of the error toast
dismissError ==
    /\ Rendered
    /\ error # NoError
    /\ ClearError
    /\ UNCHANGED <<categories, activeCategory, isLoading, isUploading, blobs, rows,
                   nextUuid, nextId, batches, nImages, deletes, fetches, loadSettled,
                   cancelled, calls>>
    /\ UNCHANGED <<zoomVars, compressVars, ev>>

-----------------------------------------------------------------------------
(* Upload: handleFileChange (App.tsx 138-166) with uploadImage (617-646) *)

\* mutant of Prepend: the record is put at the end of the sequence
Prepend_Append(prev, category, record) ==
    [c \in CategoryIds |-> IF c = category THEN prev[c] \o <<record>> ELSE prev[c]]

\* mutant of Prepend: the updater compares with the category on screen when the
\* upload ends, not with the one the invocation was started for
Prepend_IntoActive(prev, category, record) ==
    [c \in CategoryIds |-> IF c = activeCategory THEN <<record>> \o prev[c] ELSE prev[c]]

\* prev.map((cat) => cat.id === activeCategory
\*                     ? { ...cat, images: [record, ...cat.images] } : cat)
Prepend(prev, category, record) ==
    [c \in CategoryIds |-> IF c = category THEN <<record>> \o prev[c] ELSE prev[c]]

\* The for loop of batch b goes on over `files` (the file in work first): it skips
\* the files that are not images and suspends in compressImage of the next image,
\* or it ends and the finally block runs setIsUploading(false).  `added` lists
\* the ids of the records the invocation has prepended so far, the latest first.
ContinueLoop(b, category, files, added) ==
    LET rest == SkipNonImages(files)
    IN  IF rest = <<>>
        THEN /\ batches' = [batches EXCEPT ![b] = IdleBatch]
             /\ isUploading' = FALSE
        ELSE /\ batches' = [batches EXCEPT ![b] =
                               [pc |-> "compress", category |-> category, files |-> rest,
                                filename |-> NoPath, added |-> added]]
             /\ isUploading' = TRUE

\* mutant of UploadFailed: the catch stands inside the loop, which goes on with
\* the next file
UploadFailed_KeepsGoing(b, message) ==
    /\ SetError(message)
    /\ ContinueLoop(b, batches[b].category, Tail(batches[b].files), batches[b].added)

\* mutant of UploadFailed: the finally block is missing
UploadFailed_KeepsFlag(b, message) ==
    /\ SetError(message)
    /\ UNCHANGED isUploading
    /\ batches' = [batches EXCEPT ![b] = IdleBatch]

\* uploadImage threw in batch b: catch { setError(...) } finally { setIsUploading(false) }
UploadFailed(b, message) ==
    /\ SetError(message)
    /\ isUploading' = FALSE
    /\ batches' = [batches EXCEPT ![b] = IdleBatch]

\* handleFileChange(e) up to its first await, as invocation b
handleFileChange(b, files) ==
    /\ Rendered
    /\ activeCategory # NoCategory
    /\ batches[b].pc = "idle"
    /\ \A a \in 1..(b - 1) : batches[a].pc # "idle"
    /\ nImages + CountImages(files) <= MaxImages
    /\ nImages' = nImages + CountImages(files)
    /\ ContinueLoop(b, activeCategory, files, <<>>)
    /\ UNCHANGED <<categories, activeCategory, isLoading, error, errorAge, timerAge, blobs,
                   rows, nextUuid, nextId, deletes, fetches, loadSettled, cancelled, calls>>
    /\ UNCHANGED <<zoomVars, compressVars, ev>>

\* mutant of compressDone: uploadImage inserts the metadata row without uploading
\* the blob first
compressDone_SkipsPut(b) ==
    /\ batches[b].pc = "compress"
    /\ LET file == Head(batches[b].files)
       IN  IF file.decodable
           THEN /\ batches' = [batches EXCEPT ![b].pc = "insert",
                                              ![b].filename =
                                                  Filename(batches[b].category, nextUuid)]
                /\ nextUuid' = nextUuid + 1
                /\ UNCHANGED <<error, errorAge, timerAge, isUploading>>
           ELSE /\ UploadFailed(b, DecodeError)
                /\ UNCHANGED nextUuid
    /\ UNCHANGED <<categories, activeCategory, isLoading, blobs, rows, nextId,
                   nImages, deletes, fetches, loadSettled, cancelled, calls>>
    /\ UNCHANGED <<zoomVars, compressVars, ev>>

\* mutant of compressDone: the try/catch stands inside the loop, so a file that
\* fails to decode is reported and the loop goes on with the next file
compressDone_SkipsFile(b) ==
    /\ batches[b].pc = "compress"
    /\ LET file == Head(batches[b].files)
       IN  IF file.decodable
           THEN /\ batches' = [batches EXCEPT ![b].pc = "put",
                                              ![b].filename =
                                                  Filename(batches[b].category, nextUuid)]
                /\ nextUuid' = nextUuid + 1
                /\ UNCHANGED <<error, errorAge, timerAge, isUploading>>
           ELSE /\ SetError(DecodeError)
                /\ ContinueLoop(b, batches[b].category, Tail(batches[b].files),
                                batches[b].added)
                /\ UNCHANGED nextUuid
    /\ UNCHANGED <<categories, activeCategory, isLoading, blobs, rows, nextId,
                   nImages, deletes, fetches, loadSettled, cancelled, calls>>
    /\ UNCHANGED <<zoomVars, compressVars, ev>>

\* compressImage settles in batch b: img.onload draws and encodes the image and
\* uploadImage issues the storage upload; img.onerror rejects
compressDone(b) ==
    /\ batches[b].pc = "compress"
    /\ LET file == Head(batches[b].files)
       IN  IF file.decodable
           THEN /\ batches' = [batches EXCEPT ![b].pc = "put",
                                              ![b].filename =
                                                  Filename(batches[b].category, nextUuid)]
                /\ nextUuid' = nextUuid + 1
                /\ UNCHANGED <<error, errorAge, timerAge, isUploading>>
           ELSE /\ UploadFailed(b, DecodeError)
                /\ UNCHANGED nextUuid
    /\ UNCHANGED <<categories, activeCategory, isLoading, blobs, rows, nextId,
                   nImages, deletes, fetches, loadSettled, cancelled, calls>>
    /\ UNCHANGED <<zoomVars, compressVars, ev>>

\* storage.upload(filename, blob) settles in batch b; on success uploadImage issues
\* the insert of the metadata row
putDone(b, ok) ==
    /\ batches[b].pc = "put"
    /\ calls' = IF ok THEN calls \cup {Call("put", batches[b].filename)} ELSE calls
    /\ IF ok
       THEN /\ blobs' = blobs \cup {batches[b].filename}
            /\ batches' = [batches EXCEPT ![b].pc = "insert"]
            /\ UNCHANGED <<error, errorAge, timerAge, isUploading>>
       ELSE /\ UploadFailed(b, StorageError)
            /\ UNCHANGED blobs
    /\ UNCHANGED <<categories, activeCategory, isLoading, rows, nextUuid, nextId,
                   nImages, deletes, fetches, loadSettled, cancelled>>
    /\ UNCHANGED <<zoomVars, compressVars, ev>>

\* mutant of insertDone: uploadImage does not throw on dbError, so the record is
\* prepended although no row was inserted
insertDone_IgnoresError(b, ok) ==
    /\ batches[b].pc = "insert"
    /\ LET record == InsertedRow(nextId, batches[b].category, batches[b].filename)
       IN  /\ calls' = IF ok THEN calls \cup {Call("insert", batches[b].filename)} ELSE calls
           /\ rows' = IF ok THEN rows \cup {record} ELSE rows
           /\ nextId' = nextId + 1
           /\ categories' = Prepend(categories, batches[b].category, record)
           /\ ContinueLoop(b, batches[b].category, Tail(batches[b].files),
                           <<record.id>> \o batches[b].added)
           /\ UNCHANGED <<error, errorAge, timerAge>>
    /\ UNCHANGED <<activeCategory, isLoading, blobs, nextUuid, nImages, deletes,
                   fetches, loadSettled, cancelled>>
    /\ UNCHANGED <<zoomVars, compressVars, ev>>

\* from('images').insert(...) settles in batch b; on success handleFileChange
\* prepends the record and its loop goes on
insertDone(b, ok) ==
    /\ batches[b].pc = "insert"
    /\ LET record == InsertedRow(nextId, batches[b].category, batches[b].filename)
       IN  /\ calls' = IF ok THEN calls \cup {Call("insert", batches[b].filename)} ELSE calls
           /\ IF ok
              THEN /\ rows' = rows \cup {record}
                   /\ nextId' = nextId + 1
                   /\ categories' = Prepend(categories, batches[b].category, record)
                   /\ ContinueLoop(b, batches[b].category, Tail(batches[b].files),
                                   <<record.id>> \o batches[b].added)
                   /\ UNCHANGED <<error, errorAge, timerAge>>
              ELSE /\ UploadFailed(b, PostgrestError)
                   /\ UNCHANGED <<rows, nextId, categories>>
    /\ UNCHANGED <<activeCategory, isLoading, blobs, nextUuid, nImages, deletes,
                   fetches, loadSettled, cancelled>>
    /\ UNCHANGED <<zoomVars, compressVars, ev>>

-----------------------------------------------------------------------------
(* Delete: handleDeleteImage (App.tsx 168-184) with deleteImage (650-663) *)

\* mutant of Remove: the updater filters the images the category had when the
\* initial load ended (a closure over stale state), not the ones of `prev`
Remove_FromLoaded(prev, categoryId, record) ==
    [c \in CategoryIds |->
        IF c = categoryId
        THEN FilterOut(QueryByCategory(SeedRows, c), record.id)
        ELSE prev[c]]

\* mutant of Remove: the filter keeps the removed record and drops the others
Remove_KeepsOnly(prev, categoryId, record) ==
    [c \in CategoryIds |->
        IF c = categoryId
        THEN (IF record \in Range(prev[c]) THEN <<record>> ELSE <<>>)
        ELSE prev[c]]

\* prev.map((cat) => cat.id === categoryId
\*        ? { ...cat, images: cat.images.filter((img) => img.id !== record.id) } : cat)
Remove(prev, categoryId, record) ==
    [c \in CategoryIds |-> IF c = categoryId THEN FilterOut(prev[c], record.id) ELSE prev[c]]

\* deleteImage threw in invocation d: catch { setError(...) }
DeleteFailed(d, message) ==
    /\ SetError(message)
    /\ deletes' = [deletes EXCEPT ![d] = IdleDelete]

\* handleDeleteImage(currentCategory.id, img) up to its first await: the click on
\* the delete button of an image of the category on screen
handleDeleteImage(d, categoryId, record) ==
    /\ Rendered
    /\ categoryId = activeCategory
    /\ record \in Range(categories[categoryId])
    /\ deletes[d].pc = "idle"
    /\ \A e \in 1..(d - 1) : deletes[e].pc # "idle"
    /\ deletes' = [deletes EXCEPT ![d] =
                      [pc |-> "remove", categoryId |-> categoryId, record |-> record]]
    /\ UNCHANGED <<categories, activeCategory, isLoading, isUploading, error, errorAge,
                   timerAge, blobs, rows, nextUuid, nextId, batches, nImages, fetches,
                   loadSettled, cancelled, calls>>
    /\ UNCHANGED <<zoomVars, compressVars, ev>>

\* mutant of removeDone: deleteImage does not throw on storageError and goes on
\* to delete the metadata row
removeDone_IgnoresError(d, ok) ==
    /\ deletes[d].pc = "remove"
    /\ blobs' = IF ok THEN blobs \ {deletes[d].record.storage_path} ELSE blobs
    /\ deletes' = [deletes EXCEPT ![d].pc = "delete"]
    /\ UNCHANGED <<error, errorAge, timerAge>>
    /\ UNCHANGED <<categories, activeCategory, isLoading, isUploading, rows, nextUuid,
                   nextId, batches, nImages, fetches, loadSettled, cancelled,
                   calls>>
    /\ UNCHANGED <<zoomVars, compressVars, ev>>

\* storage.remove([record.storage_path]) settles in invocation d; on success
\* deleteImage issues the delete of the metadata row
removeDone(d, ok) ==
    /\ deletes[d].pc = "remove"
    /\ IF ok
       THEN /\ blobs' = blobs \ {deletes[d].record.storage_path}
            /\ deletes' = [deletes EXCEPT ![d].pc = "delete"]
            /\ UNCHANGED <<error, errorAge, timerAge>>
       ELSE /\ DeleteFailed(d, StorageError)
            /\ UNCHANGED blobs
    /\ UNCHANGED <<categories, activeCategory, isLoading, isUploading, rows, nextUuid,
                   nextId, batches, nImages, fetches, loadSettled, cancelled,
                   calls>>
    /\ UNCHANGED <<zoomVars, compressVars, ev>>

\* mutant of deleteDone: the record is filtered out before the outcome is known
deleteDone_Optimistic(d, ok) ==
    /\ deletes[d].pc = "delete"
    /\ categories' = Remove(categories, deletes[d].categoryId, deletes[d].record)
    /\ IF ok
       THEN /\ rows' = {r \in rows : r.id # deletes[d].record.id}
            /\ deletes' = [deletes EXCEPT ![d] = IdleDelete]
            /\ UNCHANGED <<error, errorAge, timerAge>>
       ELSE /\ DeleteFailed(d, PostgrestError)
            /\ UNCHANGED rows
    /\ UNCHANGED <<activeCategory, isLoading, isUploading, blobs, nextUuid, nextId,
                   batches, nImages, fetches, loadSettled, cancelled, calls>>
    /\ UNCHANGED <<zoomVars, compressVars, ev>>

\* from('images').delete().eq('id', record.id) settles in invocation d; on success
\* handleDeleteImage filters the record out of its category
deleteDone(d, ok) ==
    /\ deletes[d].pc = "delete"
    /\ IF ok
       THEN /\ rows' = {r \in rows : r.id # deletes[d].record.id}
            /\ categories' = Remove(categories, deletes[d].categoryId, deletes[d].record)
            /\ deletes' = [deletes EXCEPT ![d] = IdleDelete]
            /\ UNCHANGED <<error, errorAge, timerAge>>
       ELSE /\ DeleteFailed(d, PostgrestError)
            /\ UNCHANGED <<rows, categories>>
    /\ UNCHANGED <<activeCategory, isLoading, isUploading, blobs, nextUuid, nextId,
                   batches, nImages, fetches, loadSettled, cancelled, calls>>
    /\ UNCHANGED <<zoomVars, compressVars, ev>>

-----------------------------------------------------------------------------
(* compressImage (App.tsx 580-613), on its own *)

\* an image of any of the decoded sizes has been handed to compressImage
InitDecoded ==
    /\ img \in (Dimensions \X Dimensions) \cup {Undecodable}
    /\ canvas = NoSize
    /\ compressed = Pending

\* img.onload up to ctx.drawImage: the canvas gets the size the image is drawn at
onload ==
    /\ img \notin {NoSize, Undecodable}
    /\ canvas = NoSize
    /\ canvas' \in CanvasSizes(img[1], img[2])
    /\ UNCHANGED <<img, compressed>>
    /\ UNCHANGED <<zoomVars, pipeVars, ev>>

\* img.onerror = () => reject(new Error('Failed to load image'))
onerror ==
    /\ img = Undecodable
    /\ compressed = Pending
    /\ compressed' = DecodeError
    /\ UNCHANGED <<img, canvas>>
    /\ UNCHANGED <<zoomVars, pipeVars, ev>>

\* canvas.toBlob hands its callback a blob, or null for a canvas that has no
\* pixels (width or height 0)
EncodedBlob(size) == size[1] >= 1 /\ size[2] >= 1

\* the callback of canvas.toBlob: if (blob) resolve(blob)
\*                                else reject(new Error('Compression failed'))
toBlobDone ==
    /\ canvas # NoSize
    /\ compressed = Pending
    /\ compressed' = IF EncodedBlob(canvas) THEN Resolved ELSE CompressionFailed
    /\ UNCHANGED <<img, canvas>>
    /\ UNCHANGED <<zoomVars, pipeVars, ev>>

-----------------------------------------------------------------------------
(* Specifications *)

NextPipeline ==
    \/ \E c \in CategoryIds, ok \in BOOLEAN : fetchDone(c, ok)
    \/ unmount
    \/ \E c \in CategoryIds : handleCategoryClick(c)
    \/ handleBack
    \/ errorTimeout
    \/ dismissError
    \/ \E dt \in TimeSteps : Tick(dt)
    \/ \E b \in 1..MaxBatches, files \in Selections : handleFileChange(b, files)
    \/ \E b \in 1..MaxBatches : compressDone(b)
    \/ \E b \in 1..MaxBatches, ok \in BOOLEAN : putDone(b, ok)
    \/ \E b \in 1..MaxBatches, ok \in BOOLEAN : insertDone(b, ok)
    \/ \E d \in 1..MaxDeletes, c \in CategoryIds :
          \E r \in Range(categories[c]) : handleDeleteImage(d, c, r)
    \/ \E d \in 1..MaxDeletes, ok \in BOOLEAN : removeDone(d, ok)
    \/ \E d \in 1..MaxDeletes, ok \in BOOLEAN : deleteDone(d, ok)

Next == NextGesture \/ NextPipeline

\* the whole program
Spec == Init /\ [][Next]_vars

\* the state of the pipeline once the initial load has succeeded and the user has
\* opened the category "campo", with no upload or delete started
Viewing ==
    /\ categories = [c \in CategoryIds |-> QueryByCategory(SeedRows, c)]
    /\ activeCategory = "campo"
    /\ isLoading = FALSE
    /\ isUploading = FALSE
    /\ error = NoError
    /\ errorAge = 0
    /\ timerAge = 0
    /\ blobs = {r.storage_path : r \in SeedRows}
    /\ rows = SeedRows
    /\ nextUuid = 1
    /\ nextId = 1
    /\ batches = [b \in 1..MaxBatches |-> IdleBatch]
    /\ nImages = 0
    /\ deletes = [d \in 1..MaxDeletes |-> IdleDelete]
    /\ fetches = SettledFetches
    /\ loadSettled = TRUE
    /\ cancelled = FALSE
    /\ calls = {}

InitViewing ==
    /\ InitGesture
    /\ Viewing
    /\ InitCompress
    /\ ev = [kind |-> "init", n |-> 0, ok |-> TRUE]

\* the gesture engine alone, from the state Viewing of the pipeline
GestureSpec == InitViewing /\ [][NextGesture]_vars

\* the image lifecycle pipeline alone: no image is opened in the modal
PipelineSpec == Init /\ [][NextPipeline]_vars

\* the state Viewing with room for MaxConcurrentDeletes removes in flight
ViewingConcurrent ==
    /\ categories = [c \in CategoryIds |-> QueryByCategory(SeedRows, c)]
    /\ activeCategory = "campo"
    /\ isLoading = FALSE
    /\ isUploading = FALSE
    /\ error = NoError
    /\ errorAge = 0
    /\ timerAge = 0
    /\ blobs = {r.storage_path : r \in SeedRows}
    /\ rows = SeedRows
    /\ nextUuid = 1
    /\ nextId = 1
    /\ batches = [b \in 1..MaxBatches |-> IdleBatch]
    /\ nImages = 0
    /\ deletes = [d \in 1..MaxConcurrentDeletes |-> IdleDelete]
    /\ fetches = SettledFetches
    /\ loadSettled = TRUE
    /\ cancelled = FALSE
    /\ calls = {}

InitConcurrent ==
    /\ InitGesture
    /\ ViewingConcurrent
    /\ InitCompress
    /\ ev = [kind |-> "init", n |-> 0, ok |-> TRUE]

\* the uploads and the removes of a loaded board, the user moving between the
\* categories in between
NextConcurrent ==
    \/ \E c \in CategoryIds : handleCategoryClick(c)
    \/ handleBack
    \/ dismissError
    \/ \E b \in 1..MaxBatches, files \in Selections : handleFileChange(b, files)
    \/ \E b \in 1..MaxBatches : compressDone(b)
    \/ \E b \in 1..MaxBatches, ok \in BOOLEAN : putDone(b, ok)
    \/ \E b \in 1..MaxBatches, ok \in BOOLEAN : insertDone(b, ok)
    \/ \E d \in 1..MaxConcurrentDeletes, c \in CategoryIds :
          \E r \in Range(categories[c]) : handleDeleteImage(d, c, r)
    \/ \E d \in 1..MaxConcurrentDeletes, ok \in BOOLEAN : removeDone(d, ok)
    \/ \E d \in 1..MaxConcurrentDeletes, ok \in BOOLEAN : deleteDone(d, ok)

\* uploads and removes running concurrently on a loaded board
ConcurrentSpec == InitConcurrent /\ [][NextConcurrent]_vars

InitCompressing ==
    /\ InitGesture
    /\ InitPipeline
    /\ InitDecoded
    /\ ev = [kind |-> "init", n |-> 0, ok |-> TRUE]

NextCompress ==
    \/ onload
    \/ onerror
    \/ toBlobDone

\* compressImage alone, on every decoded size of Dimensions
CompressSpec == InitCompressing /\ [][NextCompress]_vars

-----------------------------------------------------------------------------
(* Properties of the gesture engine, checked under GestureSpec *)

\* a dispatch of the gesture handler `kind` is the step from this state to the next
Handled(kind) == nEvents' = nEvents + 1 /\ ev'.kind = kind

\* C1: after every gesture event the published scale is a number in [1, 5]:
\* never below 1, never above 5, never NaN.
C1_ScaleInRange ==
    /\ ~IsNaN(scale)
    /\ NumLe(Num(1), scale)
    /\ NumLe(scale, Num(5))

\* C2: in every reachable state, scale == 1 implies pan offset == (0, 0).
C2_UnitScaleIsCentred == (scale = Num(1)) => (position = <<0, 0>>)

\* C2 witness: a two-finger move has brought a zoomed-in, panned image back to scale 1.
C2_Witness ==
    /\ ev.kind = "move" /\ ev.n = 2
    /\ scale = Num(1) /\ position = <<0, 0>>
    /\ NumGt(pinchStartScaleRef, Num(1))
    /\ isPanningRef /\ posStartRef # <<0, 0>>

\* C8: a two-finger move received while the pinch baseline distance is zero (not
\* established, or recorded from coincident points) changes neither scale nor pan.
C8_ZeroBaselineMoveIsNoOp ==
    [][(Handled("move") /\ ev'.n = 2 /\ pinchStartDistRef = 0)
          => (scale' = scale /\ position' = position)]_vars

\* C9: a tap toggles the zoom exactly when it comes less than 300 ms after the
\* previous tap: then scale > 1 becomes (1, (0,0)) and scale == 1 becomes
\* (2.5, (0,0)); a tap 300 ms or more after the previous one changes nothing.
C9_DoubleTapToggles ==
    [][Handled("tap") =>
          IF clock' - lastTapRef < 300
          THEN /\ NumGt(scale, Num(1)) => (scale' = Num(1) /\ position' = <<0, 0>>)
               /\ (scale = Num(1)) => (scale' = <<5, 2>> /\ position' = <<0, 0>>)
               /\ scale' # scale
          ELSE scale' = scale /\ position' = position]_vars

\* C9 witness: a tap 250 ms after the previous one has zoomed in to 2.5, and the
\* pinch state shows that no pinch produced that scale.
C9_Witness ==
    /\ ev.kind = "tap"
    /\ scale = <<5, 2>> /\ position = <<0, 0>>
    /\ lastTapRef = StartClock + 350 + 250
    /\ pinchStartDistRef = 0

-----------------------------------------------------------------------------
(* Properties of the image lifecycle pipeline, checked under PipelineSpec *)

Visible == UNION {Range(categories[c]) : c \in CategoryIds}

\* C3: a record is in a category's image sequence only if the initial fetch
\* returned it or both its blob upload and its metadata insert succeeded.
C3_VisibleOnlyIfStored ==
    \A r \in Visible :
        \/ r \in SeedRows
        \/ /\ Call("put", r.storage_path) \in calls
           /\ Call("insert", r.storage_path) \in calls

\* C3 witness: an uploaded record is visible while another upload is in flight.
C3_Witness ==
    /\ \E r \in Visible : r \notin SeedRows
    /\ \E b \in 1..MaxBatches : batches[b].pc \in {"put", "insert"}

\* C4: a remove that fails at the blob delete or at the metadata delete leaves
\* every category's sequence as it was and sets an error message; a record
\* leaves a sequence only in the step in which the metadata delete succeeds,
\* which follows the successful blob delete.
C4_FailedRemoveKeepsSequences ==
    [][/\ \A d \in 1..MaxDeletes :
             (removeDone(d, FALSE) \/ deleteDone(d, FALSE))
                => (categories' = categories /\ error' # NoError)
       /\ (\E c \in CategoryIds : ~(Range(categories[c]) \subseteq Range(categories'[c])))
             => \E d \in 1..MaxDeletes : deletes[d].pc = "delete" /\ deleteDone(d, TRUE)
      ]_vars

\* C4 witness: the blob delete of the seeded record failed (no upload was ever
\* started, so the storage error is the remove's) and the record is still shown.
C4_Witness ==
    /\ error = StorageError
    /\ nImages = 0
    /\ \A d \in 1..MaxDeletes : deletes[d].pc = "idle"
    /\ categories["campo"] = QueryByCategory(SeedRows, "campo")

\* the metadata rows whose storage path holds no blob
Dangling == {r \in rows : r.storage_path \notin blobs}

\* C5: in no reachable state does the metadata store hold a row whose storage
\* path has no blob in the object store.
C5_NoDanglingRow == Dangling = {}

\* C5 amended: a row without a blob arises only in the step in which a remove's
\* blob delete succeeds; no step of an upload leaves one.
C5_DanglingOnlyByRemove ==
    [][~(Dangling' \subseteq Dangling) => \E d \in 1..MaxDeletes : removeDone(d, TRUE)]_vars

\* C5 witness: an uploaded image's blob has been deleted and its row is still there.
C5_Witness ==
    \E r \in Dangling : Call("insert", r.storage_path) \in calls

\* C6: a successful upload puts the new record at the front of the target
\* category's sequence, keeps the rest of that sequence and its order, and
\* leaves every other category's sequence unchanged.
C6_UploadPrepends ==
    [][\A b \in 1..MaxBatches :
          insertDone(b, TRUE) =>
             LET target == batches[b].category
             IN  /\ Len(categories'[target]) = Len(categories[target]) + 1
                 /\ Tail(categories'[target]) = categories[target]
                 /\ Head(categories'[target]).category = target
                 /\ Head(categories'[target]).storage_path = batches[b].filename
                 /\ Head(categories'[target]) \notin Visible
                 /\ \A c \in CategoryIds \ {target} : categories'[c] = categories[c]
      ]_vars

\* C6 witness: an uploaded record stands in front of the record the category had.
C6_Witness ==
    \E c \in CategoryIds :
        /\ Len(categories[c]) >= 2
        /\ Head(categories[c]) \notin SeedRows
        /\ categories[c][Len(categories[c])] \in SeedRows

\* C7: a selection that holds no image file issues no remote call and changes
\* no state: sequences, uploading flag and error message keep their values.
C7_NonImageChangesNothing ==
    [][\A b \in 1..MaxBatches, files \in Selections :
          (CountImages(files) = 0 /\ handleFileChange(b, files))
             => UNCHANGED <<categories, isUploading, error, batches, blobs, rows, calls>>
      ]_vars

\* batch b is suspended in the decode of a file that cannot be decoded, and
\* image files follow it in the selection
DecodeFailsBeforeImages(b) ==
    /\ batches[b].pc = "compress"
    /\ ~Head(batches[b].files).decodable
    /\ CountImages(Tail(batches[b].files)) > 0

\* C10: a file that fails to decode aborts only that file: the batch goes on
\* with the later image files of the selection.
C10_DecodeErrorContinuesBatch ==
    [][\A b \in 1..MaxBatches :
          (DecodeFailsBeforeImages(b) /\ compressDone(b))
             => batches'[b].pc = "compress"]_vars

\* C10 amended: a file that fails to decode aborts the whole batch: the error
\* is set, the uploading flag is cleared, no later file of the selection is
\* compressed or uploaded and no sequence changes.
C10_DecodeErrorAbortsBatch ==
    [][\A b \in 1..MaxBatches :
          (DecodeFailsBeforeImages(b) /\ compressDone(b))
             => /\ batches'[b] = IdleBatch
                /\ error' = DecodeError
                /\ isUploading' = FALSE
                /\ UNCHANGED <<categories, blobs, rows, nextUuid, calls>>]_vars

\* C10 witness: a batch is in the decode of a broken file with an image after it.
C10_Witness == \E b \in 1..MaxBatches : DecodeFailsBeforeImages(b)

\* every category's image sequence is empty
NoneHydrated == \A c \in CategoryIds : categories[c] = <<>>

\* C11: when a fetch of the initial load fails, whatever the other fetches did
\* before and do after, every category's sequence stays empty and exactly one
\* error message is set: the load sets its message in the step of the first
\* failure, no message stood before it, and the load is settled from then on,
\* so that no later fetch result sets a message or fills a sequence.
C11_FailedLoadHydratesNothing ==
    /\ [][\A c \in CategoryIds :
             (fetchDone(c, FALSE) /\ ~cancelled)
                => /\ NoneHydrated /\ NoneHydrated'
                   /\ error = NoError /\ error' = PostgrestError
                   /\ loadSettled' /\ ~isLoading']_vars
    /\ [][loadSettled =>
             /\ loadSettled'
             /\ \A c \in CategoryIds, ok \in BOOLEAN : ~fetchDone(c, ok)]_vars
    /\ [][(isLoading /\ ~isLoading' /\ error' # NoError) => NoneHydrated']_vars

\* C11 witness: the load has failed (no upload was started and no delete is in
\* flight, so the message is the load's) and no category holds an image although
\* the table holds a row.
C11_Witness ==
    /\ error = PostgrestError
    /\ ~isLoading /\ loadSettled
    /\ nImages = 0
    /\ NoneHydrated
    /\ rows # {}

\* the handleFileChange invocations that are suspended in an upload
InFlight == {b \in 1..MaxBatches : batches[b].pc # "idle"}

\* C12: the uploading flag is true in every state in which an upload is in
\* flight, also when two batches overlap.
C12_FlagWhileInFlight == (InFlight # {}) => isUploading

\* the categories for which the remote table holds no row when the session starts
StartedEmpty == {c \in CategoryIds : QueryByCategory(SeedRows, c) = <<>>}

\* C13: after any sequence of uploads and removes, the sequence of a category
\* that started empty holds exactly the records that were uploaded and not
\* removed (the rows the table holds for it), the newest upload first.
C13_UploadedNotRemovedNewestFirst ==
    \A c \in StartedEmpty : categories[c] = QueryByCategory(rows, c)

\* C13 witness: upload A, upload B, remove A has left [B] in a category that
\* started empty.
C13_Witness ==
    \E c \in StartedEmpty :
        /\ Len(categories[c]) = 1
        /\ categories[c][1].id = 2
        /\ Call("insert", Filename(c, 1)) \in calls
        /\ Call("insert", Filename(c, 2)) \in calls
        /\ \A d \in 1..MaxDeletes : deletes[d].pc = "idle"

-----------------------------------------------------------------------------
(* Further properties of the gesture engine, checked under GestureSpec *)

\* the distance between the two contact points of a two-finger event
TouchDistance(touches) ==
    Hypot(touches[1][1] - touches[2][1], touches[1][2] - touches[2][2])

\* clamp(r, 1, 5) on a number r
Clamp1To5(r) ==
    IF NumLt(r, Num(1)) THEN Num(1) ELSE IF NumGt(r, Num(5)) THEN Num(5) ELSE r

\* C14: a two-finger move with a non-zero baseline distance publishes
\* scale = clamp(baselineScale * currentDistance / baselineDistance, 1, 5); the
\* baseline is the scale and the distance of the latest two-finger start, and
\* nothing else changes it; baseline scale 1 with distance 100 gives 2 at
\* distance 200 and 5, not 6, at distance 600.
C14_PinchPublishesClampedRatio ==
    /\ [][\A t \in TwoTouches :
             (handleTouchMove(t) /\ pinchStartDistRef # 0)
                => /\ scale' = Clamp1To5(NumMul(pinchStartScaleRef,
                                                Norm(TouchDistance(t), pinchStartDistRef)))
                   /\ (pinchStartScaleRef = Num(1) /\ pinchStartDistRef = 100
                          /\ TouchDistance(t) = 200) => scale' = Num(2)
                   /\ (pinchStartScaleRef = Num(1) /\ pinchStartDistRef = 100
                          /\ TouchDistance(t) = 600) => scale' = Num(5)]_vars
    /\ [][\A t \in TwoTouches :
             handleTouchStart(t)
                => /\ pinchStartDistRef' = TouchDistance(t)
                   /\ pinchStartScaleRef' = scale]_vars
    /\ [][(pinchStartDistRef' # pinchStartDistRef \/ pinchStartScaleRef' # pinchStartScaleRef)
             => (Handled("start") /\ ev'.n = 2)]_vars

\* C14 witness: a two-finger move of a pinch that started at distance 100 with
\* scale 1 has published the clamped scale 5; no tap was made.
C14_Witness ==
    /\ ev.kind = "move" /\ ev.n = 2
    /\ pinchStartDistRef = 100 /\ pinchStartScaleRef = Num(1)
    /\ scale = Num(5)
    /\ lastTapRef = 0

-----------------------------------------------------------------------------
(* Properties of the error toast, checked under PipelineSpec *)

\* C15: the auto-dismiss timer clears a message only when 4 seconds have passed
\* since that message was surfaced: a timer started for an earlier error never
\* clears a later error before the later error's own 4 seconds are over.
C15_TimerClearsAfterFourSeconds ==
    [][errorTimeout => errorAge >= 4000]_vars

\* the message on screen is the one the failed initial load set: nothing was
\* ever shown, uploaded or deleted
LoadErrorShown ==
    /\ error = PostgrestError
    /\ ~isLoading
    /\ NoneHydrated
    /\ nImages = 0
    /\ rows = SeedRows

\* C16: once the failed initial load has surfaced its error, the error stays on
\* screen in every later state.
C16_LoadErrorPersists ==
    [][LoadErrorShown => error' = error]_vars

\* C16 amended: the failed initial load surfaces its error with a timer of its
\* own, the timer clears the error 4 seconds after the failure (unless the user
\* dismissed it before), and the categories stay empty until an upload succeeds.
C16_LoadErrorAutoDismisses ==
    /\ [][\A c \in CategoryIds :
             (fetchDone(c, FALSE) /\ ~cancelled)
                => (LoadErrorShown' /\ errorAge' = 0 /\ timerAge' = 0)]_vars
    /\ [][(LoadErrorShown /\ errorTimeout)
             => (errorAge = 4000 /\ error' = NoError /\ NoneHydrated')]_vars
    /\ [][(LoadErrorShown /\ error' # error) => error' = NoError]_vars
    /\ [][(loadSettled /\ NoneHydrated /\ ~NoneHydrated')
             => \E b \in 1..MaxBatches : insertDone(b, TRUE)]_vars

\* C16 witness: the error of the failed load has been on screen for 4 seconds and
\* its timer is due.
C16_Witness == LoadErrorShown /\ errorAge = 4000 /\ timerAge = 4000

-----------------------------------------------------------------------------
(* Properties of the upload loop, checked under PipelineSpec *)

\* the ids of a sequence of records
Ids(images) == [k \in 1..Len(images) |-> images[k].id]

\* the elements of the sequence `ids` that are in the set `keep`, in their order
RECURSIVE Restrict(_, _)
Restrict(ids, keep) ==
    IF ids = <<>> THEN <<>>
    ELSE (IF Head(ids) \in keep THEN <<Head(ids)>> ELSE <<>>) \o Restrict(Tail(ids), keep)

\* the ids of `added` that are still in the sequence `images` stand there in the
\* order of `added`
InOrderOf(added, images) ==
    LET shown == Ids(images)
    IN  Restrict(shown, Range(added)) = Restrict(added, Range(shown))

\* batch b fails in this step: the decode, the storage upload or the insert of
\* the file in work fails
UploadFails(b) ==
    \/ compressDone(b) /\ ~Head(batches[b].files).decodable
    \/ putDone(b, FALSE)
    \/ insertDone(b, FALSE)

\* C17: the files of one selection are processed one after another in selection
\* order: an invocation works on one file at a time, the file in front of those
\* left, and moves to the next image file only in the step that adds the record
\* of the file in work; when a file fails the invocation ends, its later files
\* are never processed, and the records it added (those of the image files
\* before the failing one) stay in the sequence, the later file in front.
C17_SequentialPrefix ==
    /\ [][\A b \in 1..MaxBatches :
             (batches[b].pc # "idle" /\ batches'[b].pc # "idle")
                => \/ /\ batches'[b].files = batches[b].files
                      /\ batches'[b].added = batches[b].added
                   \/ /\ insertDone(b, TRUE)
                      /\ batches'[b].pc = "compress"
                      /\ batches'[b].files = SkipNonImages(Tail(batches[b].files))
                      /\ Tail(batches'[b].added) = batches[b].added
                      /\ Head(batches'[b].added) = Head(categories'[batches[b].category]).id
          ]_vars
    /\ [][\A b \in 1..MaxBatches :
             UploadFails(b)
                => /\ batches'[b] = IdleBatch
                   /\ categories' = categories
                   /\ InOrderOf(batches[b].added, categories'[batches[b].category])]_vars
    /\ [][\A b \in 1..MaxBatches :
             insertDone(b, TRUE)
                => LET images == categories'[batches[b].category]
                   IN  /\ Head(images).id \notin Range(batches[b].added)
                       /\ InOrderOf(<<Head(images).id>> \o batches[b].added, images)]_vars
    /\ [](\A b \in 1..MaxBatches :
             (batches[b].pc # "idle")
                => InOrderOf(batches[b].added, categories[batches[b].category]))

\* C17 witness: an invocation has added the record of its first file, which is
\* shown, and is in the decode of its second file, which will fail.
C17_Witness ==
    \E b \in 1..MaxBatches :
        /\ batches[b].pc = "compress"
        /\ ~Head(batches[b].files).decodable
        /\ Len(batches[b].added) = 1
        /\ batches[b].added[1] \in Range(Ids(categories[batches[b].category]))

\* C18: every record in a category's sequence has that category's id in its
\* category field, and no record id stands twice in a sequence or in two
\* sequences, whatever category is on screen while an upload is in flight.
C18_RecordsInOwnCategory ==
    /\ \A c \in CategoryIds : \A k \in 1..Len(categories[c]) :
          /\ categories[c][k].category = c
          /\ \A d \in CategoryIds : \A j \in 1..Len(categories[d]) :
                (categories[d][j].id = categories[c][k].id) => (d = c /\ j = k)

\* C18 witness: an invocation started for one category has added a record to it
\* and has an upload in flight while another category, or none, is on screen.
C18_Witness ==
    \E b \in 1..MaxBatches :
        /\ batches[b].pc \in {"put", "insert"}
        /\ batches[b].category # activeCategory
        /\ Len(batches[b].added) = 1
        /\ batches[b].added[1] \in Range(Ids(categories[batches[b].category]))

\* C19: when a stage of an upload fails (compression, storage upload or insert
\* of the metadata row), an error message is set, the uploading flag is cleared
\* and no sequence changes; the stores are left as they are: after a failed
\* insert no removal is issued, so the uploaded blob stays without a row.
C19_FailedUploadChangesNoSequence ==
    [][\A b \in 1..MaxBatches :
          UploadFails(b)
             => /\ error' # NoError /\ errorAge' = 0
                /\ isUploading' = FALSE
                /\ categories' = categories
                /\ blobs' = blobs /\ rows' = rows
                /\ insertDone(b, FALSE)
                      => /\ batches[b].filename \in blobs'
                         /\ \A r \in rows' : r.storage_path # batches[b].filename]_vars

\* the storage paths that hold a blob and have no metadata row
Orphans == {path \in blobs : \A r \in rows : r.storage_path # path}

\* C19 witness: the insert of an upload failed and left its blob without a row.
C19_Witness ==
    /\ error = PostgrestError
    /\ isUploading = FALSE
    /\ \A b \in 1..MaxBatches : batches[b].pc = "idle"
    /\ \E path \in Orphans :
          Call("put", path) \in calls /\ Call("insert", path) \notin calls

-----------------------------------------------------------------------------
(* Properties of compressImage, checked under CompressSpec *)

\* n is a nearest integer to the quotient a / b
IsNearest(n, a, b) ==
    LET diff == n * b - a
    IN  2 * (IF diff < 0 THEN -diff ELSE diff) <= b

-----------------------------------------------------------------------------
(* Properties of the single gesture handlers, checked under GestureSpec *)

\* the refs a pinch start records and the refs a pan start records
pinchRefs == <<pinchStartDistRef, pinchStartScaleRef>>
panRefs == <<isPanningRef, panStartRef, posStartRef>>

\* C22: a gesture start never changes scale or pan offset; with two points it
\* records the pinch baseline distance and scale and nothing else, with one point
\* at scale > 1 the panning flag, the pan baseline position and the pan baseline
\* offset and nothing else, and otherwise it changes nothing.
C22_StartKeepsTransform ==
    [][\A t \in Touches :
          handleTouchStart(t)
             => /\ scale' = scale /\ position' = position
                /\ UNCHANGED <<lastTapRef, modalImage>>
                /\ (Len(t) = 2)
                      => /\ pinchStartDistRef' = TouchDistance(t)
                         /\ pinchStartScaleRef' = scale
                         /\ UNCHANGED panRefs
                /\ (Len(t) = 1 /\ NumGt(scale, Num(1)))
                      => /\ isPanningRef' = TRUE
                         /\ panStartRef' = t[1]
                         /\ posStartRef' = position
                         /\ UNCHANGED pinchRefs
                /\ (Len(t) = 1 /\ scale = Num(1)) => UNCHANGED <<pinchRefs, panRefs>>
                /\ (Len(t) > 2) => UNCHANGED <<pinchRefs, panRefs>>]_vars

\* C22 witness: a one-finger start on a zoomed-in, panned image has recorded the
\* pan baselines and left scale and offset as they were.
C22_Witness ==
    /\ ev.kind = "start" /\ ev.n = 1
    /\ isPanningRef
    /\ NumGt(scale, Num(1))
    /\ position # <<0, 0>>
    /\ posStartRef = position
    /\ panStartRef = <<200, 0>>

\* C23: a gesture end always clears the panning flag; with scale <= 1 it sets
\* scale 1 and offset (0, 0); with scale > 1 it leaves scale and offset alone.
C23_EndClearsPanning ==
    [][Handled("end")
          => /\ isPanningRef' = FALSE
             /\ NumLe(scale, Num(1)) => (scale' = Num(1) /\ position' = <<0, 0>>)
             /\ NumGt(scale, Num(1)) => (scale' = scale /\ position' = position)
             /\ UNCHANGED <<pinchRefs, panStartRef, posStartRef, lastTapRef>>]_vars

\* C23 witness: a gesture end on a zoomed-in, panned image has cleared the flag of
\* the pan that moved it and kept the transform.
C23_Witness ==
    /\ ev.kind = "end"
    /\ ~isPanningRef
    /\ NumGt(scale, Num(1))
    /\ position # <<0, 0>>
    /\ position # posStartRef

\* C24: a one-finger move changes the transform only while panning is active and
\* scale > 1; then the offset becomes baseline offset + (point - baseline point)
\* on each axis, unclamped, and the scale stays; a one-finger move outside a pan
\* or at scale 1, and a move with three fingers, changes neither.
C24_PanMove ==
    [][\A t \in OneTouch \cup ThreeTouches :
          handleTouchMove(t)
             => /\ scale' = scale
                /\ IF Len(t) = 1 /\ isPanningRef /\ NumGt(scale, Num(1))
                   THEN /\ position'[1] = posStartRef[1] + t[1][1] - panStartRef[1]
                        /\ position'[2] = posStartRef[2] + t[1][2] - panStartRef[2]
                   ELSE position' = position
                /\ UNCHANGED <<pinchRefs, panRefs, lastTapRef>>]_vars

\* C24 witness: a pan has moved the image on both axes, further than the image
\* is wide at scale 1.
C24_Witness ==
    /\ ev.kind = "move" /\ ev.n = 1
    /\ isPanningRef
    /\ position[1] >= 600
    /\ position[2] # 0

\* the image is zoomed in
Zoomed(s) == NumGt(s, Num(1))

\* C25: every tap sets the last-tap timestamp to its own time, whether or not it
\* toggles, and toggles the zoom exactly when it comes less than 300 ms after
\* the tap before it: of n taps in a row, each less than 300 ms after the one
\* before, all but the first toggle, the third undoing the second.
C25_EveryTapRestartsWindow ==
    [][Handled("tap")
          => /\ lastTapRef' = clock'
             /\ (clock' - lastTapRef < 300) => (Zoomed(scale') # Zoomed(scale))
             /\ (clock' - lastTapRef >= 300) => (scale' = scale /\ position' = position)
             /\ (ev.kind = "tap" /\ clock' - clock < 300) => (Zoomed(scale') # Zoomed(scale))
      ]_vars

\* C25 witness: three taps 250 ms apart, and nothing else, have zoomed in and
\* out again.
C25_Witness ==
    /\ ev.kind = "tap"
    /\ nEvents = 3
    /\ lastTapRef = StartClock + 3 * 250
    /\ scale = Num(1)

\* C29: a gesture end clears the panning flag, only a one-finger start at
\* scale > 1 sets it, and that start records both pan baselines anew; a
\* one-finger move changes the offset only while the flag is set, so never from
\* a baseline recorded before the latest gesture end.
C29_PanNeedsFreshStart ==
    /\ [][Handled("end") => ~isPanningRef']_vars
    /\ [][(~isPanningRef /\ isPanningRef')
             => /\ Handled("start") /\ ev'.n = 1
                /\ NumGt(scale, Num(1))
                /\ posStartRef' = position
                /\ \E t \in OneTouch : panStartRef' = t[1] /\ handleTouchStart(t)]_vars
    /\ [][(panStartRef' # panStartRef \/ posStartRef' # posStartRef)
             => (Handled("start") /\ ev'.n = 1 /\ isPanningRef')]_vars
    /\ [][(Handled("move") /\ ev'.n = 1 /\ ~isPanningRef) => position' = position]_vars

\* C29 witness: a finger was lifted during a pinch that zoomed in: the flag is
\* cleared while the baselines of an earlier pan are still recorded.
C29_Witness ==
    /\ ev.kind = "end"
    /\ ~isPanningRef
    /\ NumGt(scale, Num(1))
    /\ pinchStartDistRef # 0
    /\ panStartRef # <<0, 0>>

\* the pinch baseline was recorded by a two-finger start
BaselineRecorded == pinchStartDistRef # 0 \/ (ev.kind = "start" /\ ev.n = 2)

\* C30: within a pinch, a two-finger move with the fingers at the baseline
\* distance publishes the baseline scale, whatever moves came before it.
C30_BaselineDistanceGivesBaselineScale ==
    [][\A t \in TwoTouches :
          (handleTouchMove(t) /\ BaselineRecorded /\ TouchDistance(t) = pinchStartDistRef)
             => (scale' = pinchStartScaleRef /\ ~IsNaN(scale'))]_vars

\* C21: compressImage fails only for a file that cannot be decoded: for every
\* decodable image, 5000x1 included, both output dimensions are at least 1 pixel
\* and the promise resolves.
C21_CompressFailsOnlyOnDecode ==
    /\ (canvas # NoSize) => (canvas[1] >= 1 /\ canvas[2] >= 1)
    /\ (img # Undecodable) => (compressed \in {Pending, Resolved})

-----------------------------------------------------------------------------
(* Order of the remote calls and teardown, checked under PipelineSpec *)

\* C26: in upload and in remove the object-store call completes before the
\* metadata call is issued, and the metadata call is not issued when the
\* object-store call failed: an upload issues its storage upload only when the
\* compression is done and its insert only when the storage upload succeeded;
\* a remove issues its row delete only when its blob delete succeeded.
C26_StoreCallBeforeMetadataCall ==
    /\ [][\A b \in 1..MaxBatches :
             /\ (batches'[b].pc = "put" /\ batches[b].pc # "put")
                   => (batches[b].pc = "compress" /\ compressDone(b))
             /\ (batches'[b].pc = "insert" /\ batches[b].pc # "insert")
                   => /\ batches[b].pc = "put" /\ putDone(b, TRUE)
                      /\ batches[b].filename \in blobs'
             /\ putDone(b, FALSE) => (batches'[b].pc = "idle" /\ rows' = rows)]_vars
    /\ [][\A d \in 1..MaxDeletes :
             /\ (deletes'[d].pc = "delete" /\ deletes[d].pc # "delete")
                   => /\ deletes[d].pc = "remove" /\ removeDone(d, TRUE)
                      /\ deletes[d].record.storage_path \notin blobs'
             /\ removeDone(d, FALSE) => (deletes'[d].pc = "idle" /\ rows' = rows)]_vars
    /\ [][\A r \in rows' \ rows :
             /\ r.storage_path \in blobs
             /\ Call("put", r.storage_path) \in calls]_vars
    /\ [][\A r \in rows \ rows' :
             \E d \in 1..MaxDeletes :
                /\ deletes[d].pc = "delete"
                /\ deletes[d].record.id = r.id
                /\ r.storage_path \notin blobs]_vars

\* C26 witness: an upload and a remove both have their object-store call behind
\* them and their metadata call in flight.
C26_Witness ==
    /\ \E b \in 1..MaxBatches :
          batches[b].pc = "insert" /\ batches[b].filename \in blobs
    /\ \E d \in 1..MaxDeletes :
          deletes[d].pc = "delete" /\ deletes[d].record.storage_path \notin blobs

\* C27: once the view is torn down, the fetches of the initial load that settle
\* later, with success or with failure, apply nothing: categories, error message
\* and loading flag keep the values they had at teardown.
C27_CancelledLoadAppliesNothing ==
    /\ [][\A c \in CategoryIds, ok \in BOOLEAN :
             (fetchDone(c, ok) /\ cancelled)
                => UNCHANGED <<categories, error, isLoading>>]_vars
    /\ [](cancelled => (NoneHydrated /\ error = NoError /\ isLoading))

\* C27 witness: the load has settled after the teardown and nothing was applied.
C27_Witness ==
    /\ cancelled
    /\ loadSettled
    /\ isLoading /\ error = NoError /\ NoneHydrated

-----------------------------------------------------------------------------
(* Concurrent removes and uploads, checked under ConcurrentSpec *)

\* the ids of the records of category c in the sequences `cats`
Shown(cats, c) == {cats[c][k].id : k \in 1..Len(cats[c])}

\* no upload and no remove is in flight
Quiescent ==
    /\ \A b \in 1..MaxBatches : batches[b].pc = "idle"
    /\ \A d \in 1..MaxConcurrentDeletes : deletes[d].pc = "idle"

\* C28: however the completions of concurrent removes of different records and
\* of uploads interleave, each successful completion changes the sequences by
\* its own record only (a successful remove takes out its record and keeps the
\* others in their order, a successful upload puts its record in front of the
\* others), a failed completion changes no sequence, and so once all have
\* completed every category shows the rows of the table, newest first.
C28_NoCompletionLostOrUndone ==
    /\ [][\A d \in 1..MaxConcurrentDeletes :
             /\ deleteDone(d, TRUE)
                   => /\ Shown(categories', deletes[d].categoryId)
                           = Shown(categories, deletes[d].categoryId)
                                \ {deletes[d].record.id}
                      /\ \A c \in CategoryIds :
                            categories'[c]
                               = SelectSeq(categories[c],
                                           LAMBDA r : r.id \in Shown(categories', c))
             /\ (deleteDone(d, FALSE) \/ removeDone(d, FALSE) \/ removeDone(d, TRUE))
                   => categories' = categories]_vars
    /\ [][\A b \in 1..MaxBatches :
             /\ insertDone(b, TRUE)
                   => /\ categories'[batches[b].category]
                           = <<InsertedRow(nextId, batches[b].category,
                                           batches[b].filename)>>
                               \o categories[batches[b].category]
                      /\ \A c \in CategoryIds \ {batches[b].category} :
                            categories'[c] = categories[c]
             /\ (insertDone(b, FALSE) \/ putDone(b, FALSE) \/ putDone(b, TRUE)
                    \/ compressDone(b))
                   => categories' = categories]_vars
    /\ [](Quiescent => \A c \in CategoryIds : categories[c] = QueryByCategory(rows, c))

\* C28 witness: an upload of two files has prepended record 1 and is still in
\* flight on its second file; the remove of record 1 is in flight in slot 2,
\* which is taken only while slot 1 is busy; the remove of slot 1 has completed
\* in between and record 0 is gone, record 1 is still shown.
C28_Witness ==
    /\ \E b \in 1..MaxBatches : batches[b].pc # "idle" /\ batches[b].added = <<1>>
    /\ deletes[2].pc # "idle" /\ deletes[2].record.id = 1
    /\ deletes[1].pc = "idle"
    /\ Ids(categories["campo"]) = <<1>>
    /\ rows = {InsertedRow(1, "campo", Filename("campo", 1))}

-----------------------------------------------------------------------------
(* Closing the modal, checked under GestureSpec *)

\* C31: closeModal, from any scale and position, publishes scale 1 and position
\* (0, 0) together with modalImage = null; while no image is open the transform
\* stays there, so every openModal that follows shows its image at scale 1 and
\* position (0, 0).
C31_CloseResetsTransform ==
    /\ [][closeModal
             => (modalImage' = NoImage /\ scale' = Num(1) /\ position' = <<0, 0>>)]_vars
    /\ [](modalImage = NoImage => (scale = Num(1) /\ position = <<0, 0>>))
    /\ [][openModal => (scale' = Num(1) /\ position' = <<0, 0>>)]_vars

\* C31 witness: an image has just been opened at scale 1 and position (0, 0)
\* after an earlier viewing in which the image was zoomed and a pan was begun
\* from a shifted position and never ended by a touchend, with no tap on the
\* image at all.
C31_Witness ==
    /\ ev.kind = "open"
    /\ modalImage # NoImage
    /\ isPanningRef
    /\ posStartRef # <<0, 0>>
    /\ lastTapRef = 0
    /\ scale = Num(1)
    /\ position = <<0, 0>>

=============================================================================
